---- MODULE Spec2Model ----
(***************************************************************************)
(* Subscription state reconciliation of the Dumplin backend:               *)
(* backend/app/services/subscription_service.py (SubscriptionService),     *)
(* backend/app/models/subscription.py (WebhookEvent, SubscriptionInDB).    *)
(*                                                                         *)
(* Representation.                                                         *)
(*  - A MongoDB document is a function from the names of the fields it     *)
(*    holds to their values: a field the document lacks is outside its     *)
(*    DOMAIN.  The collection is a function from the user_id of every      *)
(*    stored document (unique index on user_id) to the document.          *)
(*  - A Python Optional is None (the empty tuple) or Some(v) (<<v>>).      *)
(*  - A datetime is its offset from the epoch in milliseconds; utcnow()    *)
(*    is the variable now.                                                 *)
(*  - A key missing from the webhook payload is represented by the value   *)
(*    the WebhookEvent accessor returns for it ("" or None or []).         *)
(***************************************************************************)
EXTENDS Integers, Sequences, FiniteSets, TLC

VARIABLES
    store,      \* the subscriptions collection: user_id -> document
    now,        \* the server wall clock (datetime.utcnow())
    last,       \* the event of the most recent delivery, NoEvent before the first
    returned,   \* TRUE when handle_webhook_event returned a record for it,
                \* FALSE when it returned None
    repeat,     \* TRUE when that delivery was a duplicate of the one before it
    delivered,  \* number of distinct events delivered so far
    hs,         \* the deliveries being handled at the same time: for each
                \* request handler, where it is in handle_webhook_event (pc),
                \* its event (ev) and the data dict it has built (data)
    secret,     \* settings.REVENUECAT_WEBHOOK_SECRET
    request,    \* the last request the webhook endpoint received
    response,   \* the answer the webhook endpoint gave to it
    quota,      \* the last call of check_message_limit and what it returned
    race,       \* the two deliveries that are handled at the same time, and
                \* the collection and the clock when they arrived
    api_key,    \* settings.API_KEY
    call,       \* the last request to a client endpoint (chat, chat/limit,
                \* check-message-limit, status): its arguments, where the
                \* endpoint is (pc), what it has read, and its answer
    log         \* the events received so far, in receipt order

\* the webhook endpoint's configuration, last request and answer
web == <<secret, request, response>>

\* the client endpoints' configuration and last request
client == <<api_key, call>>

vars == <<store, now, last, returned, repeat, delivered, hs, web, quota, race, client, log>>

-----------------------------------------------------------------------------
(* Bounds of the model *)

MaxClock == 2
MaxEvents == 2
\* deliveries in a run whose handlers interleave
MaxConcurrentEvents == 3

\* the request handlers that can run at the same time
Handlers == {"h1", "h2"}

-----------------------------------------------------------------------------
(* Python values *)

None == <<>>
Some(x) == <<x>>

\* SubscriptionStatus (models/subscription.py)
ACTIVE == "active"
EXPIRED == "expired"
CANCELLED == "cancelled"
TRIALING == "trialing"

-----------------------------------------------------------------------------
(* Webhook events *)

RecognizedTypes ==
    {"INITIAL_PURCHASE", "RENEWAL", "CANCELLATION", "EXPIRATION",
     "BILLING_ISSUE", "SUBSCRIBER_ALIAS", "UNCANCELLATION",
     "NON_RENEWING_PURCHASE", "SUBSCRIPTION_PAUSED", "PRODUCT_CHANGE"}

\* two types outside the vocabulary: a missing type (read as "") and a type
\* the processor sends that the service has no handler for
UnknownTypes == {"", "TRANSFER"}

EventTypes == RecognizedTypes \cup UnknownTypes

Event(type, app, orig, product, ents, exp, period) ==
    [type |-> type, app_user_id |-> app, original_app_user_id |-> orig,
     product_id |-> product, entitlement_ids |-> ents,
     expiration_at_ms |-> exp, period_type |-> period]

NoEvent == [type |-> "<no delivery yet>"]

\* WebhookEvent accessors
event_type(e) == e.type
app_user_id(e) == e.app_user_id
original_app_user_id(e) == e.original_app_user_id
product_id(e) == e.product_id
entitlement_id(e) ==
    IF e.entitlement_ids # <<>> THEN Some(Head(e.entitlement_ids)) ELSE None
expiration_at_ms(e) == e.expiration_at_ms
is_trial(e) == e.period_type = "TRIAL"

\* Python truthiness of an Optional[str] and of an Optional[int]
TruthyStr(o) == o # None /\ o[1] # ""
TruthyInt(o) == o # None /\ o[1] # 0

\* datetime.utcfromtimestamp(ms / 1000): a whole number of milliseconds
\* converts exactly, so the datetime is that many milliseconds after the epoch
utcfromtimestamp(ms) == ms

-----------------------------------------------------------------------------
(* Documents and the collection *)

EmptyStore == [k \in {} |-> None]

\* {"$set": set} applied to a document: the fields of set overwrite, the
\* fields it does not name stay
Merge(doc, set) ==
    [f \in DOMAIN doc \cup DOMAIN set |->
        IF f \in DOMAIN set THEN set[f] ELSE doc[f]]

Field(doc, f, default) == IF f \in DOMAIN doc THEN doc[f] ELSE default

\* SubscriptionInDB(**doc): the record as the service reads it, every field
\* the document lacks taking the model's default
SubscriptionInDB(doc, t) ==
    [user_id |-> doc.user_id,
     revenuecat_customer_id |-> Field(doc, "revenuecat_customer_id", None),
     status |-> Field(doc, "status", EXPIRED),
     entitlements |-> Field(doc, "entitlements", <<>>),
     current_product_id |-> Field(doc, "current_product_id", None),
     expires_at |-> Field(doc, "expires_at", None),
     created_at |-> Field(doc, "created_at", t),
     updated_at |-> Field(doc, "updated_at", t)]

find_one(st, user_id) == IF user_id \in DOMAIN st THEN Some(st[user_id]) ELSE None

get_subscription_by_user_id(st, user_id, t) ==
    IF user_id \in DOMAIN st THEN Some(SubscriptionInDB(st[user_id], t)) ELSE None

\* update_one without upsert=True: with no matching document nothing is written
update_one_no_upsert(st, user_id, data) ==
    [k \in DOMAIN st |-> IF k # user_id THEN st[k] ELSE Merge(st[user_id], data)]

\* update_one replacing the collection by the one document it writes
update_one_only_document(st, user_id, data) ==
    [k \in {user_id} |->
        IF user_id \in DOMAIN st THEN Merge(st[user_id], data)
        ELSE Merge([user_id |-> user_id], data)]

\* update_many with an empty filter: every document is written
update_many(st, user_id, data) ==
    [k \in DOMAIN st \cup {user_id} |->
        IF k \in DOMAIN st THEN Merge(st[k], data)
        ELSE Merge([user_id |-> user_id], data)]

\* collection.update_one({"user_id": user_id}, {"$set": data}, upsert=True)
update_one(st, user_id, data) ==
    [k \in DOMAIN st \cup {user_id} |->
        IF k # user_id THEN st[k]
        ELSE IF user_id \in DOMAIN st THEN Merge(st[user_id], data)
        ELSE Merge([user_id |-> user_id], data)]

\* upsert_data setting created_at on every write
upsert_data_created_always(data, user_id, t, existing) ==
    Merge(data, [user_id |-> user_id, updated_at |-> t, created_at |-> t])

\* upsert_subscription up to its write: the data stamped with user_id and
\* updated_at, and with created_at when find_one saw no document
upsert_data(data, user_id, t, existing) ==
    LET stamped == Merge(data, [user_id |-> user_id, updated_at |-> t])
    IN  IF existing = None THEN Merge(stamped, [created_at |-> t]) ELSE stamped

upsert_subscription(st, user_id, data, t) ==
    LET written == update_one(st, user_id,
                              upsert_data(data, user_id, t, find_one(st, user_id)))
    IN  [store |-> written, ret |-> find_one(written, user_id)]

-----------------------------------------------------------------------------
(* The handlers: the data each one hands to upsert_subscription *)

event_entitlements(e) ==
    IF TruthyStr(entitlement_id(e)) THEN <<entitlement_id(e)[1]>> ELSE <<>>

event_expires_at(e) ==
    IF TruthyInt(expiration_at_ms(e))
    THEN Some(utcfromtimestamp(expiration_at_ms(e)[1]))
    ELSE None

\* handle_initial_purchase ignoring the period type
handle_initial_purchase_never_trial(e) ==
    [status |-> ACTIVE,
     entitlements |-> event_entitlements(e),
     current_product_id |-> product_id(e),
     expires_at |-> event_expires_at(e),
     revenuecat_customer_id |-> Some(original_app_user_id(e))]

handle_initial_purchase(e) ==
    [status |-> IF is_trial(e) THEN TRIALING ELSE ACTIVE,
     entitlements |-> event_entitlements(e),
     current_product_id |-> product_id(e),
     expires_at |-> event_expires_at(e),
     revenuecat_customer_id |-> Some(original_app_user_id(e))]

\* handle_renewal keeping a trial a trial
handle_renewal_keeps_trial(e) ==
    [status |-> IF is_trial(e) THEN TRIALING ELSE ACTIVE,
     entitlements |-> event_entitlements(e),
     current_product_id |-> product_id(e),
     expires_at |-> event_expires_at(e)]

handle_renewal(e) ==
    [status |-> ACTIVE,
     entitlements |-> event_entitlements(e),
     current_product_id |-> product_id(e),
     expires_at |-> event_expires_at(e)]

\* handle_cancellation not carrying the entitlements over
handle_cancellation_drops(e, existing) ==
    [status |-> CANCELLED,
     expires_at |-> event_expires_at(e),
     entitlements |-> <<>>]

\* handle_cancellation adding the event's entitlement to the ones it read
handle_cancellation_appends(e, existing) ==
    [status |-> CANCELLED,
     expires_at |-> event_expires_at(e),
     entitlements |-> (IF existing # None THEN existing[1].entitlements ELSE <<>>)
                      \o event_entitlements(e)]

\* existing: what get_subscription_by_user_id returned to the handler
handle_cancellation(e, existing) ==
    [status |-> CANCELLED,
     expires_at |-> event_expires_at(e),
     entitlements |-> IF existing # None THEN existing[1].entitlements ELSE <<>>]

handle_uncancellation(e) ==
    [status |-> ACTIVE,
     entitlements |-> event_entitlements(e),
     current_product_id |-> product_id(e),
     expires_at |-> event_expires_at(e)]

\* handle_expiration leaving the entitlements as they are
handle_expiration_keeps_entitlements(e, t) ==
    [status |-> EXPIRED,
     current_product_id |-> None,
     expires_at |-> Some(t)]

\* handle_expiration taking the expiry the event carries
handle_expiration_from_event(e, t) ==
    [status |-> EXPIRED,
     entitlements |-> <<>>,
     current_product_id |-> None,
     expires_at |-> IF TruthyInt(expiration_at_ms(e)) THEN event_expires_at(e) ELSE Some(t)]

handle_expiration(e, t) ==
    [status |-> EXPIRED,
     entitlements |-> <<>>,
     current_product_id |-> None,
     expires_at |-> Some(t)]

\* handle_subscriber_alias recording the user instead of the alias
handle_subscriber_alias_by_user(e) ==
    [revenuecat_customer_id |-> Some(app_user_id(e))]

handle_subscriber_alias(e) ==
    [revenuecat_customer_id |-> Some(original_app_user_id(e))]

handle_product_change(e) ==
    [status |-> ACTIVE,
     entitlements |-> event_entitlements(e),
     current_product_id |-> product_id(e),
     expires_at |-> event_expires_at(e)]

\* the handlers table with a default handler for the types it does not name
handlers_with_default(type) ==
    CASE type = "INITIAL_PURCHASE" -> Some("initial_purchase")
      [] type = "RENEWAL" -> Some("renewal")
      [] type = "CANCELLATION" -> Some("cancellation")
      [] type = "EXPIRATION" -> Some("expiration")
      [] type = "BILLING_ISSUE" -> Some("billing_issue")
      [] type = "SUBSCRIBER_ALIAS" -> Some("subscriber_alias")
      [] type = "UNCANCELLATION" -> Some("uncancellation")
      [] type = "NON_RENEWING_PURCHASE" -> Some("initial_purchase")
      [] type = "SUBSCRIPTION_PAUSED" -> Some("cancellation")
      [] type = "PRODUCT_CHANGE" -> Some("product_change")
      [] OTHER -> Some("renewal")

\* the handlers table of handle_webhook_event: the name of the handler a
\* type is mapped to, None for a type that has none
handlers(type) ==
    CASE type = "INITIAL_PURCHASE" -> Some("initial_purchase")
      [] type = "RENEWAL" -> Some("renewal")
      [] type = "CANCELLATION" -> Some("cancellation")
      [] type = "EXPIRATION" -> Some("expiration")
      [] type = "BILLING_ISSUE" -> Some("billing_issue")
      [] type = "SUBSCRIBER_ALIAS" -> Some("subscriber_alias")
      [] type = "UNCANCELLATION" -> Some("uncancellation")
      [] type = "NON_RENEWING_PURCHASE" -> Some("initial_purchase")
      [] type = "SUBSCRIPTION_PAUSED" -> Some("cancellation")
      [] type = "PRODUCT_CHANGE" -> Some("product_change")
      [] OTHER -> None

\* event_user_id filing the events that name nobody under one shared user
event_user_id_or_anonymous(e) ==
    IF app_user_id(e) # "" THEN app_user_id(e)
    ELSE IF original_app_user_id(e) # "" THEN original_app_user_id(e)
    ELSE "anonymous"

\* event_user_id taking the alias first
event_user_id_alias_first(e) ==
    IF original_app_user_id(e) # "" THEN original_app_user_id(e) ELSE app_user_id(e)

\* user_id = event.app_user_id or event.original_app_user_id
event_user_id(e) ==
    IF app_user_id(e) # "" THEN app_user_id(e) ELSE original_app_user_id(e)

\* the data of the handler named h; the cancellation handler reads the
\* collection first
handler_data(h, st, user_id, e, t) ==
    CASE h = "initial_purchase" -> handle_initial_purchase(e)
      [] h = "renewal" -> handle_renewal(e)
      [] h = "cancellation" ->
            handle_cancellation(e, get_subscription_by_user_id(st, user_id, t))
      [] h = "uncancellation" -> handle_uncancellation(e)
      [] h = "expiration" -> handle_expiration(e, t)
      [] h = "subscriber_alias" -> handle_subscriber_alias(e)
      [] h = "product_change" -> handle_product_change(e)

\* _handle_billing_issue marking the subscription expired at once
handle_billing_issue_expires(st, user_id) ==
    [store |-> update_one(st, user_id, [status |-> EXPIRED, entitlements |-> <<>>]),
     ret |-> Some([user_id |-> user_id])]

\* _handle_billing_issue: logs, reads the record and returns it
handle_billing_issue(st, user_id) == [store |-> st, ret |-> find_one(st, user_id)]

\* handle_webhook_event consulting the current status: an event other than a
\* purchase is dropped when the record is expired
handle_webhook_event_unless_expired(st, e, t) ==
    LET user_id == event_user_id(e)
        handler == handlers(event_type(e))
        existing == get_subscription_by_user_id(st, user_id, t)
    IN  IF user_id = "" THEN [store |-> st, ret |-> None]
        ELSE IF handler = None THEN [store |-> st, ret |-> None]
        ELSE IF handler[1] = "billing_issue"
             THEN handle_billing_issue(st, user_id)
        ELSE IF /\ existing # None
                /\ existing[1].status = EXPIRED
                /\ handler[1] # "initial_purchase"
             THEN [store |-> st, ret |-> find_one(st, user_id)]
        ELSE upsert_subscription(st, user_id,
                                 handler_data(handler[1], st, user_id, e, t), t)

\* handle_webhook_event run from start to end with no other handler between
\* its reads and writes: the collection it leaves, and the document of the
\* record it returns (None when it returns None)
handle_webhook_event(st, e, t) ==
    LET user_id == event_user_id(e)
        handler == handlers(event_type(e))
    IN  IF user_id = "" THEN [store |-> st, ret |-> None]
        ELSE IF handler = None THEN [store |-> st, ret |-> None]
        ELSE IF handler[1] = "billing_issue"
             THEN handle_billing_issue(st, user_id)
        ELSE upsert_subscription(st, user_id,
                                 handler_data(handler[1], st, user_id, e, t), t)

-----------------------------------------------------------------------------
(* The deliveries the model draws from *)

\* the expiration_at_ms a payload carries when it carries a nonzero one
ExpMs == 2

Expirations == {None, Some(0), Some(ExpMs)}
Periods == {"NORMAL", "TRIAL"}

\* <<product_id, entitlement_ids>>: each key absent and present, a list of
\* one tag and a list of two
Plans ==
    {<<None, <<>>>>, <<Some("p1"), <<"pro">>>>,
     <<None, <<"basic", "pro">>>>, <<Some("p1"), <<>>>>}

\* a payload is <<product_id, entitlement_ids, expiration_at_ms, period_type>>:
\* one with none of the optional keys, and one with all of them
BarePayload == <<None, <<>>, None, "NORMAL">>
FullPayload == <<Some("p1"), <<"pro">>, Some(ExpMs), "TRIAL">>

AllPayloads ==
    {<<pl[1], pl[2], x, per>> : pl \in Plans, x \in Expirations, per \in Periods}
ExpirationPayloads ==
    {<<p[1], p[2], x, p[4]>> : p \in {BarePayload, FullPayload}, x \in Expirations}
FewPayloads ==
    {BarePayload} \cup {<<FullPayload[1], FullPayload[2], x, FullPayload[4]>> : x \in Expirations}

\* the payloads drawn for a type: every combination for the first type of
\* each handler that reads the keys, a few for the other types mapped to the
\* same code, the bare and the full one for the types that read none
Payloads(type) ==
    CASE type \in {"INITIAL_PURCHASE", "RENEWAL"} -> AllPayloads
      [] type = "CANCELLATION" -> ExpirationPayloads
      [] type \in {"NON_RENEWING_PURCHASE", "UNCANCELLATION", "PRODUCT_CHANGE",
                   "SUBSCRIPTION_PAUSED"} -> FewPayloads
      [] OTHER -> {BarePayload, FullPayload}

EventOf(type, ids, p) == Event(type, ids[1], ids[2], p[1], p[2], p[3], p[4])

\* <<app_user_id, original_app_user_id>>: the usual delivery names user u1 in
\* both; others name only an alias, or nobody; a purchase or an alias event
\* may name an alias that differs from the user, or no alias
UsualIdentity == <<"u1", "u1">>
Identities(type) ==
    {<<"", "u2">>, <<"", "">>}
    \cup (IF type \in {"INITIAL_PURCHASE", "SUBSCRIBER_ALIAS"}
          THEN {<<"u1", "u2">>, <<"u2", "">>} ELSE {})

Events ==
    UNION {{EventOf(type, UsualIdentity, p) : p \in Payloads(type)}
           \cup {EventOf(type, ids, FullPayload) : ids \in Identities(type)}
           : type \in EventTypes}

-----------------------------------------------------------------------------
(* Deliveries handled one at a time *)

\* a request handler that is handling no delivery
Idle == [pc |-> "idle"]

\* before the first request to the webhook endpoint, and before the first
\* call of check_message_limit
NoRequest == [body |-> "<no request yet>"]
NoResponse == [code |-> 0]
NoQuery == [user_id |-> "<no call yet>"]

\* before two deliveries arrive together
NoRace == [ev |-> <<>>]

\* before the first request to a client endpoint
NoCall == [endpoint |-> "<no request yet>", pc |-> "done"]

Init ==
    /\ store = EmptyStore
    /\ now = 1
    /\ last = NoEvent
    /\ returned = FALSE
    /\ repeat = FALSE
    /\ delivered = 0
    /\ hs = [h \in Handlers |-> Idle]
    /\ secret = None
    /\ request = NoRequest
    /\ response = NoResponse
    /\ quota = NoQuery
    /\ race = NoRace
    /\ api_key = None
    /\ call = NoCall
    /\ log = <<>>

\* the webhook endpoint hands event e to handle_webhook_event, which runs to
\* its end
Process(e) ==
    \E done \in {handle_webhook_event(store, e, now)} :
        /\ last' = e
        /\ store' = done.store
        /\ returned' = (done.ret # None)
        /\ UNCHANGED <<now, hs, web, quota, race, client, log>>

Deliver(e) ==
    /\ delivered < MaxEvents
    /\ delivered' = delivered + 1
    /\ repeat' = FALSE
    /\ Process(e)

\* the processor delivers the event it delivered last a second time
Redeliver ==
    /\ last # NoEvent
    /\ ~repeat
    /\ repeat' = TRUE
    /\ Process(last)
    /\ UNCHANGED delivered

Tick ==
    /\ now < MaxClock
    /\ now' = now + 1
    /\ UNCHANGED <<store, last, returned, repeat, delivered, hs, web, quota, race, client, log>>

Next ==
    \/ \E e \in Events : Deliver(e)
    \/ Redeliver
    \/ Tick

Spec == Init /\ [][Next]_vars

-----------------------------------------------------------------------------
(* Deliveries handled at the same time: every read and write of the         *)
(* collection is a step of its own, and the steps of two handlers interleave *)

\* the deliveries drawn here: for user u1 every type with the full payload,
\* the types that write also with the bare one, and a purchase for user u2
ConcurrentEvents ==
    {EventOf(type, UsualIdentity, FullPayload) : type \in EventTypes}
    \cup {EventOf(type, UsualIdentity, BarePayload) :
            type \in {"INITIAL_PURCHASE", "RENEWAL", "CANCELLATION"}}
    \cup {EventOf("INITIAL_PURCHASE", <<"", "u2">>, FullPayload)}

\* handle_webhook_event up to the call of upsert_subscription: an event with
\* no user or no handler returns None, BILLING_ISSUE reads and returns, the
\* cancellation handler reads the record, the others build their data
Begin(h, e) ==
    /\ hs[h].pc = "idle"
    /\ delivered < MaxConcurrentEvents
    /\ delivered' = delivered + 1
    /\ LET user_id == event_user_id(e)
           handler == handlers(event_type(e))
       IN  /\ hs' = [hs EXCEPT ![h] =
                       IF user_id = "" \/ handler = None \/ handler = Some("billing_issue")
                       THEN Idle
                       ELSE [pc |-> "find", ev |-> e,
                             data |-> handler_data(handler[1], store, user_id, e, now)]]
           /\ store' = IF user_id # "" /\ handler = Some("billing_issue")
                       THEN handle_billing_issue(store, user_id).store
                       ELSE store
    /\ UNCHANGED <<now, last, returned, repeat, web, quota, race, client, log>>

\* upsert_subscription: data["updated_at"], find_one, data["created_at"]
UpsertFind(h) ==
    /\ hs[h].pc = "find"
    /\ hs' = [hs EXCEPT ![h].pc = "update",
                        ![h].data = upsert_data(@, event_user_id(hs[h].ev), now,
                                                find_one(store, event_user_id(hs[h].ev)))]
    /\ UNCHANGED <<store, now, last, returned, repeat, delivered, web, quota, race, client, log>>

\* upsert_subscription: update_one
UpsertWrite(h) ==
    /\ hs[h].pc = "update"
    /\ store' = update_one(store, event_user_id(hs[h].ev), hs[h].data)
    /\ hs' = [hs EXCEPT ![h].pc = "read"]
    /\ UNCHANGED <<now, last, returned, repeat, delivered, web, quota, race, client, log>>

\* upsert_subscription: the read of the record it returns
UpsertRead(h) ==
    /\ hs[h].pc = "read"
    /\ hs' = [hs EXCEPT ![h] = Idle]
    /\ UNCHANGED <<store, now, last, returned, repeat, delivered, web, quota, race, client, log>>

NextConcurrent ==
    \/ \E h \in Handlers, e \in ConcurrentEvents : Begin(h, e)
    \/ \E h \in Handlers : UpsertFind(h)
    \/ \E h \in Handlers : UpsertWrite(h)
    \/ \E h \in Handlers : UpsertRead(h)
    \/ Tick

SpecConcurrent == Init /\ [][NextConcurrent]_vars

-----------------------------------------------------------------------------
(* Two deliveries for one user handled at the same time *)

RaceEvents == {e \in ConcurrentEvents : event_user_id(e) = "u1"}

\* the deliveries that come before the two: purchases
SetupEvents == {e \in RaceEvents : e.type = "INITIAL_PURCHASE"}

\* a delivery handled from start to end before the two arrive
Setup(e) ==
    /\ race = NoRace
    /\ last = NoEvent
    /\ Process(e)
    /\ UNCHANGED <<repeat, delivered>>

\* two deliveries arrive
Arrive(e1, e2) ==
    /\ race = NoRace
    /\ race' = [ev |-> <<e1, e2>>, base |-> store, clock |-> now]
    /\ UNCHANGED <<store, now, last, returned, repeat, delivered, hs, web, quota, client, log>>

\* a request handler that is free takes the next of the two
Handle(h) ==
    /\ race # NoRace
    /\ delivered < Len(race.ev)
    /\ Begin(h, race.ev[delivered + 1])

NextRace ==
    \/ \E e \in SetupEvents : Setup(e)
    \/ \E e1 \in RaceEvents, e2 \in RaceEvents : Arrive(e1, e2)
    \/ \E h \in Handlers : Handle(h)
    \/ \E h \in Handlers : UpsertFind(h)
    \/ \E h \in Handlers : UpsertWrite(h)
    \/ \E h \in Handlers : UpsertRead(h)
    \/ Tick

SpecRace == Init /\ [][NextRace]_vars

-----------------------------------------------------------------------------
(* The webhook endpoint: signature check, parsing, the store failing *)

\* requests in a run of the endpoint
MaxRequests == 2

\* a request body is its bytes: one that is no JSON, a JSON object with no
\* "event" key, or the JSON of an event
NotJson == [raw |-> "not json"]
NoEventKey == [raw |-> "{}"]
JsonOf(e) == [raw |-> "event", event |-> e]

\* request.json() followed by WebhookEvent(**payload): the event, None when
\* either raises
parse(body) == IF body.raw = "event" THEN Some(body.event) ELSE None

\* hmac.new(secret.encode(), payload, hashlib.sha256).hexdigest(): the digest
\* is a value that two different pairs of secret and payload do not share
hmac_hexdigest(key, payload) == <<key, payload>>

\* the empty header value
EmptySignature == <<>>

\* Python truthiness of the Optional[str] header
TruthySignature(o) == o # None /\ o[1] # EmptySignature

verify_webhook_signature(sec, payload, signature) ==
    IF ~TruthyStr(sec) THEN TRUE
    ELSE hmac_hexdigest(sec[1], payload) = signature

\* the round trips to the store that handle_webhook_event makes for event
\* e, in order
round_trips(e) ==
    LET handler == handlers(event_type(e))
    IN  IF event_user_id(e) = "" \/ handler = None THEN <<>>
        ELSE IF handler[1] = "billing_issue" THEN <<"find_one">>
        ELSE IF handler[1] = "cancellation"
             THEN <<"find_one", "find_one", "update_one", "find_one">>
        ELSE <<"find_one", "update_one", "find_one">>

\* an outage is None, or Some of the round trip that raises (at) and of
\* whether the store had applied the write when that round trip is one
NoOutage == None
Outage(at, applied) == Some([at |-> at, applied |-> applied])

\* handle_webhook_event with the store failing: the round trips before the
\* one that raises have their effect, the exception leaves the call there
handle_webhook_event_outage(st, e, t, outage) ==
    LET done == handle_webhook_event(st, e, t)
        trips == round_trips(e)
    IN  IF outage = None \/ outage[1].at > Len(trips)
        THEN [store |-> done.store, raised |-> FALSE]
        ELSE LET written ==
                    \E i \in 1..Len(trips) :
                        /\ trips[i] = "update_one"
                        /\ i < outage[1].at \/ (i = outage[1].at /\ outage[1].applied)
             IN  [store |-> IF written THEN done.store ELSE st, raised |-> TRUE]

Response(code, status) == [code |-> code, status |-> status]

\* the endpoint letting the exception of the processing through
receive_revenuecat_webhook_raising(st, sec, req, t) ==
    IF /\ TruthyStr(sec) /\ TruthySignature(req.signature)
       /\ ~verify_webhook_signature(sec, req.body, req.signature[1])
    THEN [store |-> st, response |-> Response(401, "")]
    ELSE IF parse(req.body) = None
    THEN [store |-> st, response |-> Response(500, "")]
    ELSE LET done == handle_webhook_event_outage(st, parse(req.body)[1], t, req.outage)
         IN  [store |-> done.store,
              response |-> IF done.raised THEN Response(500, "")
                           ELSE Response(200, "ok")]

\* receive_revenuecat_webhook: the collection it leaves and its answer
receive_revenuecat_webhook(st, sec, req, t) ==
    IF /\ TruthyStr(sec) /\ TruthySignature(req.signature)
       /\ ~verify_webhook_signature(sec, req.body, req.signature[1])
    THEN [store |-> st, response |-> Response(401, "")]
    ELSE IF parse(req.body) = None
    THEN [store |-> st, response |-> Response(200, "error")]
    ELSE LET done == handle_webhook_event_outage(st, parse(req.body)[1], t, req.outage)
         IN  [store |-> done.store,
              response |-> Response(200, IF done.raised THEN "error" ELSE "ok")]

\* the configurations: no secret, and one
Secrets == {None, Some("s1")}

\* the events the requests carry: for user u1 one type of each kind of
\* handler, and every type with no user named at all
WebhookEvents ==
    {EventOf(type, UsualIdentity, FullPayload) :
        type \in {"INITIAL_PURCHASE", "CANCELLATION", "EXPIRATION",
                  "BILLING_ISSUE", "TRANSFER"}}
    \cup {EventOf(type, <<"", "">>, FullPayload) : type \in EventTypes}

Bodies == {NotJson, NoEventKey} \cup {JsonOf(e) : e \in WebhookEvents}

\* the X-RevenueCat-Signature header of a request with the given body: none,
\* empty, the digest under the secret s1, the digest under another secret,
\* the digest of another body under s1
Signatures(body) ==
    {None, Some(EmptySignature), Some(hmac_hexdigest("s1", body)),
     Some(hmac_hexdigest("s2", body)), Some(hmac_hexdigest("s1", NotJson))}

Outages ==
    {NoOutage} \cup {Outage(at, applied) : at \in 1..4, applied \in BOOLEAN}

\* every body with every signature while the store answers, and every body
\* rightly signed with every outage
Requests ==
    UNION {{[body |-> b, signature |-> sig, outage |-> NoOutage] : sig \in Signatures(b)}
           \cup {[body |-> b, signature |-> Some(hmac_hexdigest("s1", b)), outage |-> o] :
                    o \in Outages}
           : b \in Bodies}

InitWebhook ==
    /\ store = EmptyStore
    /\ now = 1
    /\ last = NoEvent
    /\ returned = FALSE
    /\ repeat = FALSE
    /\ delivered = 0
    /\ hs = [h \in Handlers |-> Idle]
    /\ secret \in Secrets
    /\ request = NoRequest
    /\ response = NoResponse
    /\ quota = NoQuery
    /\ race = NoRace
    /\ api_key = None
    /\ call = NoCall
    /\ log = <<>>

Receive(req) ==
    /\ delivered < MaxRequests
    /\ delivered' = delivered + 1
    /\ \E done \in {receive_revenuecat_webhook(store, secret, req, now)} :
        /\ store' = done.store
        /\ response' = done.response
    /\ request' = req
    /\ UNCHANGED <<now, last, returned, repeat, hs, secret, quota, race, client, log>>

NextWebhook ==
    \/ \E req \in Requests : Receive(req)
    \/ Tick

SpecWebhook == InitWebhook /\ [][NextWebhook]_vars

-----------------------------------------------------------------------------
(* The is-pro check and the weekly message limit *)

\* settings.FREE_TIER_WEEKLY_MESSAGE_LIMIT
FREE_TIER_WEEKLY_MESSAGE_LIMIT == 20

\* milliseconds in a day: timedelta.days counts whole days
MsPerDay == 86400000
days(delta) == delta \div MsPerDay

\* "pro" in subscription.entitlements
Has(entitlements, tag) == \E i \in 1..Len(entitlements) : entitlements[i] = tag

max(a, b) == IF a >= b THEN a ELSE b

\* is_user_pro never looking at expires_at: a cancelled subscription stays
\* pro until an event says otherwise
is_user_pro_until_told(st, user_id, t) ==
    LET subscription == get_subscription_by_user_id(st, user_id, t)
    IN  IF subscription = None THEN FALSE
        ELSE IF subscription[1].status = EXPIRED THEN FALSE
        ELSE Has(subscription[1].entitlements, "pro")

\* is_user_pro granting a cancelled subscription its last instant
is_user_pro_not_strict(st, user_id, t) ==
    LET subscription == get_subscription_by_user_id(st, user_id, t)
    IN  IF subscription = None THEN FALSE
        ELSE IF subscription[1].status = EXPIRED THEN FALSE
        ELSE IF subscription[1].status = CANCELLED
             THEN IF /\ subscription[1].expires_at # None
                     /\ subscription[1].expires_at[1] >= t
                  THEN Has(subscription[1].entitlements, "pro")
                  ELSE FALSE
        ELSE Has(subscription[1].entitlements, "pro")

is_user_pro(st, user_id, t) ==
    LET subscription == get_subscription_by_user_id(st, user_id, t)
    IN  IF subscription = None THEN FALSE
        ELSE IF subscription[1].status = EXPIRED THEN FALSE
        ELSE IF subscription[1].status = CANCELLED
             THEN IF /\ subscription[1].expires_at # None
                     /\ subscription[1].expires_at[1] > t
                  THEN Has(subscription[1].entitlements, "pro")
                  ELSE FALSE
        ELSE Has(subscription[1].entitlements, "pro")

\* current_message_count after the week-reset step of check_message_limit
effective_count(current_message_count, week_start_ms, t) ==
    IF /\ TruthyInt(week_start_ms)
       /\ days(t - utcfromtimestamp(week_start_ms[1])) >= 7
    THEN 0
    ELSE current_message_count

\* check_message_limit counting the messages of a pro user too
check_message_limit_counts_pro(st, user_id, current_message_count, week_start_ms, t) ==
    LET count == effective_count(current_message_count, week_start_ms, t)
    IN  <<count < FREE_TIER_WEEKLY_MESSAGE_LIMIT,
          Some(max(0, FREE_TIER_WEEKLY_MESSAGE_LIMIT - count))>>

\* check_message_limit allowing the message that reaches the limit
check_message_limit_up_to_limit(st, user_id, current_message_count, week_start_ms, t) ==
    IF is_user_pro(st, user_id, t) THEN <<TRUE, None>>
    ELSE LET count == effective_count(current_message_count, week_start_ms, t)
         IN  <<count <= FREE_TIER_WEEKLY_MESSAGE_LIMIT,
               Some(max(0, FREE_TIER_WEEKLY_MESSAGE_LIMIT - count))>>

\* check_message_limit without the floor of 0 on remaining
check_message_limit_unclamped(st, user_id, current_message_count, week_start_ms, t) ==
    IF is_user_pro(st, user_id, t) THEN <<TRUE, None>>
    ELSE LET count == effective_count(current_message_count, week_start_ms, t)
         IN  <<count < FREE_TIER_WEEKLY_MESSAGE_LIMIT,
               Some(FREE_TIER_WEEKLY_MESSAGE_LIMIT - count)>>

\* check_message_limit: <<can_send, remaining_messages>>
check_message_limit(st, user_id, current_message_count, week_start_ms, t) ==
    IF is_user_pro(st, user_id, t) THEN <<TRUE, None>>
    ELSE LET count == effective_count(current_message_count, week_start_ms, t)
         IN  <<count < FREE_TIER_WEEKLY_MESSAGE_LIMIT,
               Some(max(0, FREE_TIER_WEEKLY_MESSAGE_LIMIT - count))>>

\* the clock here starts seven days after the epoch, so that a window start
\* can be seven days old
SevenDays == 7 * MsPerDay

\* the deliveries drawn here, all for user u1: purchases that grant "pro",
\* another tag or none, cancellations that expire at the first clock value,
\* at the second or carry no expiry, and an expiration
QuotaEvents ==
    {EventOf("INITIAL_PURCHASE", UsualIdentity, <<Some("p1"), ents, Some(SevenDays + 1), per>>) :
        ents \in {<<"pro">>, <<"basic", "pro">>, <<>>}, per \in {"NORMAL"}}
    \cup {EventOf("INITIAL_PURCHASE", UsualIdentity, <<Some("p1"), <<"pro">>, None, "TRIAL">>)}
    \cup {EventOf("CANCELLATION", UsualIdentity, <<None, <<>>, x, "NORMAL">>) :
            x \in {None, Some(SevenDays), Some(SevenDays + 1)}}
    \cup {EventOf("EXPIRATION", UsualIdentity, BarePayload)}

\* the message counts and window starts a client sends: counts around the
\* limit, far above it and below zero; no window start, the epoch, one before
\* the epoch, ones seven days before the clock values and just less, one in
\* the future
Counts ==
    {-1, 0, 10, FREE_TIER_WEEKLY_MESSAGE_LIMIT - 1, FREE_TIER_WEEKLY_MESSAGE_LIMIT,
     FREE_TIER_WEEKLY_MESSAGE_LIMIT + 1, 1000}
WeekStarts == {None, Some(-MsPerDay), Some(0), Some(1), Some(2), Some(SevenDays + MsPerDay)}
QuotaUsers == {"u1", "u2"}

InitQuota ==
    /\ store = EmptyStore
    /\ now = SevenDays
    /\ last = NoEvent
    /\ returned = FALSE
    /\ repeat = FALSE
    /\ delivered = 0
    /\ hs = [h \in Handlers |-> Idle]
    /\ secret = None
    /\ request = NoRequest
    /\ response = NoResponse
    /\ quota = NoQuery
    /\ race = NoRace
    /\ api_key = None
    /\ call = NoCall
    /\ log = <<>>

\* a delivery handled from start to end; what check_message_limit returned
\* before it no longer describes the collection
Notify(e) ==
    /\ delivered < MaxEvents
    /\ delivered' = delivered + 1
    /\ \E done \in {handle_webhook_event(store, e, now)} :
        /\ store' = done.store
        /\ returned' = (done.ret # None)
    /\ last' = e
    /\ quota' = NoQuery
    /\ UNCHANGED <<now, repeat, hs, web, race, client, log>>

\* the clock advances; what check_message_limit returned before it no longer
\* describes the present
Pass ==
    /\ now < SevenDays + MaxClock - 1
    /\ now' = now + 1
    /\ quota' = NoQuery
    /\ UNCHANGED <<store, last, returned, repeat, delivered, hs, web, race, client, log>>

\* a call of check_message_limit: its arguments, what is_user_pro returned to
\* it, the count it used and what it returned
CheckMessageLimit(user_id, current_message_count, week_start_ms) ==
    /\ \E result \in {check_message_limit(store, user_id, current_message_count,
                                          week_start_ms, now)} :
        quota' = [user_id |-> user_id,
                  current_message_count |-> current_message_count,
                  week_start_ms |-> week_start_ms,
                  is_pro |-> is_user_pro(store, user_id, now),
                  effective |-> effective_count(current_message_count, week_start_ms, now),
                  can_send |-> result[1],
                  remaining |-> result[2]]
    /\ UNCHANGED <<store, now, last, returned, repeat, delivered, hs, web, race, client, log>>

NextQuota ==
    \/ \E e \in QuotaEvents : Notify(e)
    \/ Pass
    \/ \E u \in QuotaUsers, c \in Counts, w \in WeekStarts : CheckMessageLimit(u, c, w)

SpecQuota == InitQuota /\ [][NextQuota]_vars

-----------------------------------------------------------------------------
(* The client endpoints: chat, chat/limit, check-message-limit and status *)

\* require_api_key: TRUE when the request passes, FALSE when it is answered 401
require_api_key(key, x_api_key) ==
    IF ~TruthyStr(key) THEN TRUE
    ELSE ~(~TruthyStr(x_api_key) \/ x_api_key # key)

Unauthorized == [code |-> 401]

\* chat processing the message whatever check_message_limit returned
chat_ungated(is_pro, checked) ==
    [code |-> 200, processed |-> TRUE, is_pro |-> is_pro,
     remaining_messages |-> checked[2]]

\* chat, after its two calls into the service: is_pro is what is_user_pro
\* returned and checked what check_message_limit returned; processed tells
\* whether the endpoint went on to process the chat message
chat(is_pro, checked) ==
    IF ~checked[1]
    THEN [code |-> 429, processed |-> FALSE, remaining_messages |-> Some(0),
          weekly_limit |-> FREE_TIER_WEEKLY_MESSAGE_LIMIT, is_pro |-> FALSE]
    ELSE [code |-> 200, processed |-> TRUE, is_pro |-> is_pro,
          remaining_messages |-> checked[2]]

\* get_message_limit (GET /chat/limit/{user_id}) after its two calls
get_message_limit(user_id, is_pro, checked) ==
    [code |-> 200, user_id |-> user_id, is_pro |-> is_pro, can_send |-> checked[1],
     remaining_messages |-> checked[2],
     weekly_limit |-> FREE_TIER_WEEKLY_MESSAGE_LIMIT]

\* the endpoint check_message_limit (POST /subscriptions/check-message-limit)
\* after its two calls
api_check_message_limit(is_pro, checked) ==
    IF checked[1]
    THEN [code |-> 200, allowed |-> TRUE, is_pro |-> is_pro,
          remaining_messages |-> checked[2],
          weekly_message_limit |-> FREE_TIER_WEEKLY_MESSAGE_LIMIT]
    ELSE [code |-> 200, allowed |-> FALSE, is_pro |-> FALSE,
          remaining_messages |-> Some(0),
          weekly_message_limit |-> FREE_TIER_WEEKLY_MESSAGE_LIMIT]

\* get_subscription_status after its calls: subscription is the record it
\* read, is_pro what is_user_pro returned, remaining_messages None or what
\* check_message_limit returned
get_subscription_status(user_id, message_count, subscription, is_pro, remaining_messages) ==
    IF subscription # None
    THEN [code |-> 200, user_id |-> user_id, is_pro |-> is_pro,
          status |-> subscription[1].status,
          entitlements |-> subscription[1].entitlements,
          current_product_id |-> subscription[1].current_product_id,
          expires_at |-> subscription[1].expires_at,
          remaining_messages |-> remaining_messages,
          weekly_message_limit |-> FREE_TIER_WEEKLY_MESSAGE_LIMIT]
    ELSE [code |-> 200, user_id |-> user_id, is_pro |-> FALSE,
          status |-> EXPIRED, entitlements |-> <<>>,
          current_product_id |-> None, expires_at |-> None,
          remaining_messages |-> Some(FREE_TIER_WEEKLY_MESSAGE_LIMIT - message_count),
          weekly_message_limit |-> FREE_TIER_WEEKLY_MESSAGE_LIMIT]

\* the deliveries handled between an endpoint's calls: the purchases that
\* grant "pro", the cancellation that expires at the second clock value and
\* the expiration
ClientEvents ==
    {e \in QuotaEvents :
        /\ e.type = "INITIAL_PURCHASE" => e.entitlement_ids = <<"pro">>
        /\ e.type = "CANCELLATION" => e.expiration_at_ms = Some(SevenDays + 1)}

\* the configurations, the endpoints and the requests drawn: no key
\* configured or one; requests without a key, with the configured one and
\* with another; counts below, at and above the limit; no window start and
\* one that is seven days old at the second clock value
ApiKeys == {None, Some("k1")}
Endpoints == {"chat", "get_message_limit", "check_message_limit", "get_subscription_status"}
RequestKeys == {None, Some("k1"), Some("k2")}
ClientCounts == {10, FREE_TIER_WEEKLY_MESSAGE_LIMIT, FREE_TIER_WEEKLY_MESSAGE_LIMIT + 1}
ClientWeekStarts == {None, Some(1)}

InitClient ==
    /\ store = EmptyStore
    /\ now = SevenDays
    /\ last = NoEvent
    /\ returned = FALSE
    /\ repeat = FALSE
    /\ delivered = 0
    /\ hs = [h \in Handlers |-> Idle]
    /\ secret = None
    /\ request = NoRequest
    /\ response = NoResponse
    /\ quota = NoQuery
    /\ race = NoRace
    /\ api_key \in ApiKeys
    /\ call = NoCall
    /\ log = <<>>

\* a request reaches an endpoint: require_api_key, then the endpoint's first
\* call into the service (get_subscription_by_user_id for the status
\* endpoint, is_user_pro for the others)
Call(endpoint, user_id, message_count, week_start_ms, x_api_key) ==
    /\ call.pc = "done"
    /\ LET args == [endpoint |-> endpoint, user_id |-> user_id,
                    message_count |-> message_count,
                    week_start_ms |-> week_start_ms]
       IN  call' =
             IF ~require_api_key(api_key, x_api_key)
             THEN Merge(args, [pc |-> "done", response |-> Unauthorized])
             ELSE IF endpoint = "get_subscription_status"
             THEN Merge(args, [pc |-> "is_user_pro",
                               subscription |->
                                   get_subscription_by_user_id(store, user_id, 0)])
             ELSE Merge(args, [pc |-> "check_message_limit",
                               is_pro |-> is_user_pro(store, user_id, now)])
    /\ UNCHANGED <<store, now, last, returned, repeat, delivered, hs, web, quota, race,
                   api_key, log>>

\* the status endpoint's call of is_user_pro; a pro user is answered at once
IsUserPro ==
    /\ call.pc = "is_user_pro"
    /\ \E is_pro \in {is_user_pro(store, call.user_id, now)} :
        call' =
          IF is_pro
          THEN Merge(call, [pc |-> "done", is_pro |-> is_pro, at |-> now,
                            response |->
                                get_subscription_status(call.user_id, call.message_count,
                                                        call.subscription, is_pro, None)])
          ELSE Merge(call, [pc |-> "check_message_limit", is_pro |-> is_pro])
    /\ UNCHANGED <<store, now, last, returned, repeat, delivered, hs, web, quota, race,
                   api_key, log>>

\* the endpoint's call of check_message_limit, and its answer; at is the
\* clock when it answers
Limit ==
    /\ call.pc = "check_message_limit"
    /\ \E checked \in {check_message_limit(store, call.user_id, call.message_count,
                                           call.week_start_ms, now)} :
        call' = Merge(call,
            [pc |-> "done", checked |-> checked, at |-> now,
             response |->
                CASE call.endpoint = "chat" -> chat(call.is_pro, checked)
                  [] call.endpoint = "get_message_limit" ->
                        get_message_limit(call.user_id, call.is_pro, checked)
                  [] call.endpoint = "check_message_limit" ->
                        api_check_message_limit(call.is_pro, checked)
                  [] call.endpoint = "get_subscription_status" ->
                        get_subscription_status(call.user_id, call.message_count,
                                                call.subscription, call.is_pro,
                                                checked[2])])
    /\ UNCHANGED <<store, now, last, returned, repeat, delivered, hs, web, quota, race,
                   api_key, log>>

\* requests to the client endpoints for user u1, while deliveries are handled
\* and the clock advances between an endpoint's calls into the service
NextClient ==
    \/ \E e \in ClientEvents : Notify(e)
    \/ Pass
    \/ \E ep \in Endpoints, c \in ClientCounts, w \in ClientWeekStarts, x \in RequestKeys :
            Call(ep, "u1", c, w, x)
    \/ IsUserPro
    \/ Limit

SpecClient == InitClient /\ [][NextClient]_vars

-----------------------------------------------------------------------------
(* Deliveries in receipt order *)

\* a payload whose expiration is the first clock value, so that it lies
\* before an expiration handled at the second
LatePayload == <<Some("p2"), <<"basic">>, Some(1), "NORMAL">>

\* the deliveries drawn here, all for user u1: one of every type that sets
\* the status, and a purchase and a renewal with the late payload
OrderEvents ==
    {EventOf(type, UsualIdentity, FullPayload) :
        type \in RecognizedTypes \ {"BILLING_ISSUE", "SUBSCRIBER_ALIAS"}}
    \cup {EventOf(type, UsualIdentity, LatePayload) : type \in {"INITIAL_PURCHASE", "RENEWAL"}}

\* a delivery handled from start to end, noted in the log of receipts
Receipt(e) ==
    /\ delivered < MaxEvents
    /\ delivered' = delivered + 1
    /\ \E done \in {handle_webhook_event(store, e, now)} :
        /\ store' = done.store
        /\ returned' = (done.ret # None)
    /\ last' = e
    /\ log' = Append(log, e)
    /\ UNCHANGED <<now, repeat, hs, web, quota, race, client>>

NextOrder ==
    \/ \E e \in OrderEvents : Receipt(e)
    \/ Tick

SpecOrder == Init /\ [][NextOrder]_vars

-----------------------------------------------------------------------------
(* The claims *)

\* a step that handled a delivery from start to end, and one that handled a
\* duplicate of the delivery before it
Delivery == delivered' # delivered \/ (repeat' /\ ~repeat)
Redelivery == repeat' /\ ~repeat

\* the record of user u as the service reads it, None when there is none
Record(st, u) == get_subscription_by_user_id(st, u, 0)

\* the subscription state of a record, without and with its expiry
StateButExpiry(st, u) ==
    IF Record(st, u) = None THEN None
    ELSE Some([status |-> Record(st, u)[1].status,
               entitlements |-> Record(st, u)[1].entitlements,
               current_product_id |-> Record(st, u)[1].current_product_id,
               revenuecat_customer_id |-> Record(st, u)[1].revenuecat_customer_id])
Expiry(st, u) == IF Record(st, u) = None THEN None ELSE Some(Record(st, u)[1].expires_at)
State(st, u) == <<StateButExpiry(st, u), Expiry(st, u)>>

\* C1: in every state of the collection, with the reads and writes of the
\* handlers of concurrent deliveries interleaved, every record that reads as
\* expired has no entitlements
C1_ExpiredHasNoEntitlements ==
    \A u \in DOMAIN store :
        Record(store, u)[1].status = EXPIRED => Record(store, u)[1].entitlements = <<>>

\* an expiration has been written while a cancellation that read the "pro"
\* entitlement before it is about to write
C1_Witness ==
    /\ "u1" \in DOMAIN store
    /\ Record(store, "u1")[1].status = EXPIRED
    /\ \E h \in Handlers :
        /\ hs[h].pc = "update"
        /\ hs[h].ev.type = "CANCELLATION"
        /\ hs[h].data.entitlements = <<"pro">>

\* C2 as claimed: a recognized event delivered a second time, at any later
\* clock, leaves status, entitlements, current_product_id, expires_at and
\* revenuecat_customer_id of the user's record as the first delivery left them
C2_SameStateOnRedelivery ==
    [][(Redelivery /\ last'.type \in RecognizedTypes)
        => State(store', event_user_id(last')) = State(store, event_user_id(last'))]_vars

\* C2 amended: the second delivery leaves status, entitlements,
\* current_product_id and revenuecat_customer_id as they were, and expires_at
\* too unless the event is an EXPIRATION, which sets it to the clock of the
\* second delivery
C2_SameStateButExpirationTime ==
    [][(Redelivery /\ last'.type \in RecognizedTypes)
        => LET u == event_user_id(last')
           IN  /\ StateButExpiry(store', u) = StateButExpiry(store, u)
               /\ last'.type # "EXPIRATION" => Expiry(store', u) = Expiry(store, u)
               /\ (last'.type = "EXPIRATION" /\ u # "")
                    => Expiry(store', u) = Some(Some(now))]_vars

\* an EXPIRATION delivered at clock 1 to a user with no record and again at
\* clock 2
C2_Witness ==
    /\ repeat /\ delivered = 1 /\ last.type = "EXPIRATION"
    /\ "u1" \in DOMAIN store
    /\ store["u1"].created_at = 1
    /\ store["u1"].expires_at = Some(2)

\* C3 as claimed: an INITIAL_PURCHASE delivered a second time leaves the
\* user's record identical, field for field, to the record after the first
C3_IdenticalOnRedelivery ==
    [][(Redelivery /\ last'.type = "INITIAL_PURCHASE")
        => find_one(store', event_user_id(last')) = find_one(store, event_user_id(last'))]_vars

\* C3 amended: identical in every field but updated_at, which is the clock
\* of the second delivery
C3_IdenticalButUpdatedAt ==
    [][(Redelivery /\ last'.type = "INITIAL_PURCHASE" /\ event_user_id(last') # "")
        => LET u == event_user_id(last')
           IN  /\ u \in DOMAIN store /\ u \in DOMAIN store'
               /\ store'[u] = [store[u] EXCEPT !.updated_at = now]]_vars

\* an INITIAL_PURCHASE delivered at clock 1 to a user with no record and
\* again at clock 2
C3_Witness ==
    /\ repeat /\ delivered = 1 /\ last.type = "INITIAL_PURCHASE"
    /\ "u1" \in DOMAIN store
    /\ store["u1"].created_at = 1
    /\ store["u1"].updated_at = 2

\* C4: an event whose type is outside the vocabulary, the empty type
\* included, leaves the collection as it was (no record changed, none
\* created), and handle_webhook_event returns None
C4_UnknownTypeIsNoOp ==
    [][(Delivery /\ last'.type \notin RecognizedTypes)
        => (store' = store /\ ~returned')]_vars

\* an event of an unknown type has been delivered for a user who has a record
C4_Witness ==
    /\ last.type \in UnknownTypes
    /\ event_user_id(last) \in DOMAIN store
    /\ ~returned

\* C5: a CANCELLATION or SUBSCRIPTION_PAUSED handled on its own leaves the
\* user's record cancelled with the entitlements and the current_product_id
\* it had; for a user with no record it creates one with no entitlements
C5_CancellationKeepsEntitlements ==
    [][(Delivery /\ last'.type \in {"CANCELLATION", "SUBSCRIPTION_PAUSED"}
                 /\ event_user_id(last') # "")
        => LET u == event_user_id(last')
               after == Record(store', u)
               before == Record(store, u)
           IN  /\ after # None
               /\ after[1].status = CANCELLED
               /\ before # None =>
                    /\ after[1].entitlements = before[1].entitlements
                    /\ after[1].current_product_id = before[1].current_product_id
               /\ before = None => after[1].entitlements = <<>>]_vars

\* a cancellation has been handled for a record that held "pro" and a product
C5_Witness ==
    /\ last.type \in {"CANCELLATION", "SUBSCRIPTION_PAUSED"}
    /\ "u1" \in DOMAIN store
    /\ Record(store, "u1")[1].status = CANCELLED
    /\ Record(store, "u1")[1].entitlements = <<"pro">>
    /\ Record(store, "u1")[1].current_product_id = Some("p1")

\* C6: an EXPIRATION, whatever the record was and whatever the event
\* carries, leaves the record expired, with no entitlements, no
\* current_product_id, and expires_at at the server clock of its handling
C6_ExpirationClears ==
    [][(Delivery /\ last'.type = "EXPIRATION" /\ event_user_id(last') # "")
        => LET after == Record(store', event_user_id(last'))
           IN  /\ after # None
               /\ after[1].status = EXPIRED
               /\ after[1].entitlements = <<>>
               /\ after[1].current_product_id = None
               /\ after[1].expires_at = Some(now)]_vars

\* an EXPIRATION that carries a product, an entitlement and an expiry has
\* been handled for a record an earlier purchase had created
C6_Witness ==
    /\ last.type = "EXPIRATION"
    /\ last.expiration_at_ms = Some(ExpMs)
    /\ last.entitlement_ids = <<"pro">>
    /\ "u1" \in DOMAIN store
    /\ "revenuecat_customer_id" \in DOMAIN store["u1"]
    /\ store["u1"].status = EXPIRED
    /\ store["u1"].expires_at = Some(1)

\* C7: an INITIAL_PURCHASE or NON_RENEWING_PURCHASE leaves the record
\* trialing when the period type is TRIAL and active otherwise, with exactly
\* the first entitlement of the event (none when it has none) and with the
\* event's product_id
C7_PurchaseSetsRecord ==
    [][(Delivery /\ last'.type \in {"INITIAL_PURCHASE", "NON_RENEWING_PURCHASE"}
                 /\ event_user_id(last') # "")
        => LET after == Record(store', event_user_id(last'))
           IN  /\ after # None
               /\ after[1].status = IF last'.period_type = "TRIAL" THEN TRIALING ELSE ACTIVE
               /\ after[1].entitlements =
                    IF Len(last'.entitlement_ids) > 0
                    THEN <<last'.entitlement_ids[1]>> ELSE <<>>
               /\ after[1].current_product_id = last'.product_id]_vars

\* a trial purchase listing two entitlements has been handled for a record
\* that existed before
C7_Witness ==
    /\ last.type = "INITIAL_PURCHASE"
    /\ last.period_type = "TRIAL"
    /\ last.entitlement_ids = <<"basic", "pro">>
    /\ "u1" \in DOMAIN store
    /\ store["u1"].status = TRIALING
    /\ store["u1"].entitlements = <<"basic">>
    /\ store["u1"].created_at < store["u1"].updated_at

\* C8: a RENEWAL, UNCANCELLATION or PRODUCT_CHANGE leaves the record active
\* whatever its status was and whatever the period type, with exactly the
\* first entitlement of the event (none when it has none) and with the
\* event's product_id
C8_RenewalSetsRecord ==
    [][(Delivery /\ last'.type \in {"RENEWAL", "UNCANCELLATION", "PRODUCT_CHANGE"}
                 /\ event_user_id(last') # "")
        => LET after == Record(store', event_user_id(last'))
           IN  /\ after # None
               /\ after[1].status = ACTIVE
               /\ after[1].entitlements =
                    IF Len(last'.entitlement_ids) > 0
                    THEN <<last'.entitlement_ids[1]>> ELSE <<>>
               /\ after[1].current_product_id = last'.product_id]_vars

\* a renewal with the TRIAL period type and no entitlement has been handled
\* for a record an earlier purchase had created
C8_Witness ==
    /\ last.type = "RENEWAL"
    /\ last.period_type = "TRIAL"
    /\ last.entitlement_ids = <<>>
    /\ "u1" \in DOMAIN store
    /\ "revenuecat_customer_id" \in DOMAIN store["u1"]
    /\ store["u1"].status = ACTIVE
    /\ store["u1"].entitlements = <<>>

\* C9 as claimed: after a purchase, renewal, uncancellation, product change,
\* cancellation or pause, expires_at is the time of the event's
\* expiration_at_ms when the event carries one, and what it was before when
\* the event carries none
C9_ExpiryFromEventElseKept ==
    [][(Delivery /\ event_user_id(last') # ""
                 /\ last'.type \in {"INITIAL_PURCHASE", "NON_RENEWING_PURCHASE",
                                    "RENEWAL", "UNCANCELLATION", "PRODUCT_CHANGE",
                                    "CANCELLATION", "SUBSCRIPTION_PAUSED"})
        => LET u == event_user_id(last')
               after == Record(store', u)
               before == Record(store, u)
           IN  /\ after # None
               /\ after[1].expires_at =
                    IF last'.expiration_at_ms # None
                    THEN Some(utcfromtimestamp(last'.expiration_at_ms[1]))
                    ELSE IF before # None THEN before[1].expires_at ELSE None]_vars

\* C10: a BILLING_ISSUE leaves the collection as it was: no field of any
\* record changed, no record created
C10_BillingIssueChangesNothing ==
    [][(Delivery /\ last'.type = "BILLING_ISSUE") => store' = store]_vars

\* a BILLING_ISSUE has been handled for a user who has a record, and
\* the record was returned
C10_Witness ==
    /\ last.type = "BILLING_ISSUE"
    /\ event_user_id(last) = "u1"
    /\ returned
    /\ "u1" \in DOMAIN store
    /\ "u2" \notin DOMAIN store

\* C11: a SUBSCRIBER_ALIAS handled for a user who has a record sets
\* revenuecat_customer_id to the event's original_app_user_id and leaves
\* status, entitlements, current_product_id and expires_at as they were
C11_AliasSetsCustomerIdOnly ==
    [][(Delivery /\ last'.type = "SUBSCRIBER_ALIAS"
                 /\ event_user_id(last') \in DOMAIN store)
        => LET u == event_user_id(last')
               after == Record(store', u)
               before == Record(store, u)
           IN  /\ after # None
               /\ after[1].revenuecat_customer_id = Some(last'.original_app_user_id)
               /\ after[1].status = before[1].status
               /\ after[1].entitlements = before[1].entitlements
               /\ after[1].current_product_id = before[1].current_product_id
               /\ after[1].expires_at = before[1].expires_at]_vars

\* a SUBSCRIBER_ALIAS naming user u1 and alias u2 has been handled for the
\* record a trial purchase of u1 had created
C11_Witness ==
    /\ last.type = "SUBSCRIBER_ALIAS"
    /\ last.app_user_id = "u1" /\ last.original_app_user_id = "u2"
    /\ "u1" \in DOMAIN store
    /\ Record(store, "u1")[1].status = TRIALING
    /\ Record(store, "u1")[1].entitlements = <<"pro">>
    /\ Record(store, "u1")[1].expires_at = Some(ExpMs)
    /\ Record(store, "u1")[1].revenuecat_customer_id = Some("u2")

\* a step in which the webhook endpoint received a request, and a request
\* that passes the signature check: no secret is configured or it carries
\* the digest of its body under the secret
Received == delivered' # delivered /\ request' # NoRequest
Genuine(req) ==
    ~TruthyStr(secret) \/ req.signature = Some(hmac_hexdigest(secret[1], req.body))

\* C12: a request whose event, of any type, names neither an app_user_id nor
\* an original_app_user_id leaves the collection as it was, and the endpoint
\* answers 200 with status "ok" (handle_webhook_event did not raise), whether
\* the store answers or not
C12_NoIdentityIsNoOp ==
    [][(Received /\ Genuine(request') /\ parse(request'.body) # None
                 /\ parse(request'.body)[1].app_user_id = ""
                 /\ parse(request'.body)[1].original_app_user_id = "")
        => (store' = store /\ response' = Response(200, "ok"))]_vars

\* a purchase naming nobody has been received and answered while the store,
\* which holds the record of u1, was unavailable
C12_Witness ==
    /\ request # NoRequest
    /\ parse(request.body) # None
    /\ parse(request.body)[1].type = "INITIAL_PURCHASE"
    /\ parse(request.body)[1].app_user_id = ""
    /\ parse(request.body)[1].original_app_user_id = ""
    /\ request.outage = Outage(1, FALSE)
    /\ response = Response(200, "ok")
    /\ DOMAIN store = {"u1"}

\* C13: the only record a recognized event creates or changes is the one
\* keyed by its app_user_id when that is not empty, and by its
\* original_app_user_id when the app_user_id is absent or empty; every type
\* but BILLING_ISSUE does write that record
C13_MutatesRecordOfUser ==
    [][(Delivery /\ last'.type \in RecognizedTypes)
        => LET key == IF last'.app_user_id # "" THEN last'.app_user_id
                      ELSE last'.original_app_user_id
           IN  /\ DOMAIN store \subseteq DOMAIN store'
               /\ \A u \in DOMAIN store' :
                    (u \notin DOMAIN store \/ store'[u] # store[u]) => u = key
               /\ (key # "" /\ last'.type # "BILLING_ISSUE")
                    => (key \in DOMAIN store' /\ store'[key].updated_at = now)]_vars

\* an event naming only the alias u2 has written the record of u2, and then
\* an event naming user u1 and alias u2 has written the record of u1 only
C13_Witness ==
    /\ last.type \in RecognizedTypes
    /\ last.app_user_id = "u1" /\ last.original_app_user_id = "u2"
    /\ DOMAIN store = {"u1", "u2"}
    /\ store["u2"].updated_at = 1
    /\ store["u1"].updated_at = 2

\* C14: what is_user_pro returns is the reference predicate of the user's
\* record and the clock: FALSE with no record; FALSE when expired; when
\* cancelled, TRUE exactly when expires_at is present, later than now, and
\* "pro" is an entitlement; when active or trialing, TRUE exactly when "pro"
\* is an entitlement, whatever expires_at is
C14_IsProIsReference ==
    quota # NoQuery =>
        LET r == Record(store, quota.user_id)
            pro == "pro" \in {r[1].entitlements[i] : i \in 1..Len(r[1].entitlements)}
        IN  quota.is_pro =
                IF r = None THEN FALSE
                ELSE CASE r[1].status = EXPIRED -> FALSE
                       [] r[1].status = CANCELLED ->
                            r[1].expires_at # None /\ r[1].expires_at[1] > now /\ pro
                       [] r[1].status \in {ACTIVE, TRIALING} -> pro

\* the check has been made for a cancelled record that holds "pro" at the
\* very instant it expires, and returned FALSE
C14_Witness ==
    /\ quota # NoQuery
    /\ quota.user_id = "u1"
    /\ "u1" \in DOMAIN store
    /\ Record(store, "u1")[1].status = CANCELLED
    /\ Record(store, "u1")[1].entitlements = <<"pro">>
    /\ Record(store, "u1")[1].expires_at = Some(now)
    /\ ~quota.is_pro

\* C15: for a user whose is-pro check is TRUE check_message_limit returns
\* (True, None), whatever the count, far above the limit included, and
\* whatever the window start
C15_ProIsUnlimited ==
    (quota # NoQuery /\ quota.is_pro) => (quota.can_send /\ quota.remaining = None)

\* a pro user has asked with a count of 1000 and a window start at the epoch
C15_Witness ==
    /\ quota # NoQuery
    /\ quota.is_pro
    /\ quota.current_message_count = 1000
    /\ quota.week_start_ms = Some(0)
    /\ quota.can_send

\* C16: for a user who is not pro, remaining is the limit less the count
\* check_message_limit used, and 0 when that is negative, and can_send is
\* TRUE exactly when that count is under the limit: a count at or above the
\* limit is refused with 0 remaining
C16_RemainingAndAllowed ==
    (quota # NoQuery /\ ~quota.is_pro) =>
        /\ quota.remaining =
              Some(IF FREE_TIER_WEEKLY_MESSAGE_LIMIT - quota.effective < 0 THEN 0
                   ELSE FREE_TIER_WEEKLY_MESSAGE_LIMIT - quota.effective)
        /\ quota.can_send = (quota.effective < FREE_TIER_WEEKLY_MESSAGE_LIMIT)
        /\ quota.effective >= FREE_TIER_WEEKLY_MESSAGE_LIMIT
              => (~quota.can_send /\ quota.remaining = Some(0))

\* a user with no record has asked with a count one above the limit and no
\* window start, and was refused
C16_Witness ==
    /\ quota # NoQuery
    /\ quota.user_id \notin DOMAIN store
    /\ quota.current_message_count = FREE_TIER_WEEKLY_MESSAGE_LIMIT + 1
    /\ quota.week_start_ms = None
    /\ ~quota.can_send
    /\ quota.remaining = Some(0)

\* C17 as claimed: for a user who is not pro, the count check_message_limit
\* uses is 0 when a window start is given, whatever integer it is, and the
\* clock is at least seven days past it, and the client's count otherwise
C17_EffectiveCount ==
    (quota # NoQuery /\ ~quota.is_pro) =>
        quota.effective =
            IF /\ quota.week_start_ms # None
               /\ now - quota.week_start_ms[1] >= SevenDays
            THEN 0
            ELSE quota.current_message_count

\* the four fields of the subscription state of user u, None with no record
Subscription(st, u) ==
    IF Record(st, u) = None THEN None
    ELSE Some([status |-> Record(st, u)[1].status,
               entitlements |-> Record(st, u)[1].entitlements,
               current_product_id |-> Record(st, u)[1].current_product_id,
               expires_at |-> Record(st, u)[1].expires_at])

\* event a handled from start to end at clock ta, then event b at clock tb
OneAfterTheOther(st, a, ta, b, tb) ==
    handle_webhook_event(handle_webhook_event(st, a, ta).store, b, tb).store

\* C18 as claimed: when two deliveries for one user have been handled with
\* their reads and writes interleaved, status, entitlements,
\* current_product_id and expires_at of the record are what handling the
\* two one after the other, in one order or the other and at some clocks
\* between their arrival and now, leaves
C18_ConcurrentIsSerial ==
    (race # NoRace /\ delivered = Len(race.ev) /\ \A h \in Handlers : hs[h].pc = "idle")
        => \E ta \in race.clock..now : \E tb \in ta..now :
            \/ Subscription(store, "u1")
                 = Subscription(OneAfterTheOther(race.base, race.ev[1], ta, race.ev[2], tb), "u1")
            \/ Subscription(store, "u1")
                 = Subscription(OneAfterTheOther(race.base, race.ev[2], ta, race.ev[1], tb), "u1")

\* a request the signature check refuses: a secret is configured and the
\* request carries a signature that is not the digest of its body under it
Refused(req) ==
    /\ TruthyStr(secret)
    /\ TruthySignature(req.signature)
    /\ req.signature[1] # hmac_hexdigest(secret[1], req.body)

\* the processing of a request raises: its body does not parse, or the
\* store fails in one of the round trips its event makes
Raises(req) ==
    \/ parse(req.body) = None
    \/ /\ req.outage # NoOutage
       /\ req.outage[1].at <= Len(round_trips(parse(req.body)[1]))

\* C19: a request that the signature check lets through is answered 200 in
\* every case: with status "ok" when its event is processed or is a no-op,
\* with status "error" when the parsing raises or a store round trip raises;
\* never with another code
C19_ProcessingAlwaysAnswers200 ==
    [][(Received /\ ~Refused(request'))
        => /\ response'.code = 200
           /\ response'.status = IF Raises(request') THEN "error" ELSE "ok"]_vars

\* the first request, a purchase for u1, has been answered 200 with status
\* "error": the store applied the write and failed in the read after it
C19_Witness ==
    /\ delivered = 1
    /\ request # NoRequest
    /\ parse(request.body) # None
    /\ parse(request.body)[1].type = "INITIAL_PURCHASE"
    /\ request.outage = Outage(3, FALSE)
    /\ response = Response(200, "error")
    /\ "u1" \in DOMAIN store

\* C20 as claimed: with a secret configured, a request that does not carry
\* the digest of its body under the secret, one that carries no signature
\* included, is answered 401 and leaves the collection as it was, and one
\* that carries it goes on to the processing; with no secret configured
\* every request goes on to the processing
C20_OnlySignedDeliveriesProcessed ==
    [][Received
        => IF TruthyStr(secret)
           THEN IF request'.signature = Some(hmac_hexdigest(secret[1], request'.body))
                THEN response'.code = 200
                ELSE response'.code = 401 /\ store' = store
           ELSE response'.code = 200]_vars


\* a request to an endpoint that passed require_api_key and was answered
Answered(endpoint) ==
    /\ call.endpoint = endpoint
    /\ call.pc = "done"
    /\ call.response # Unauthorized

\* C21: the chat endpoint goes on to process the message exactly when
\* check_message_limit allowed it; when it did not, the request is answered
\* 429 with the weekly limit, remaining_messages 0 and is_pro false, and the
\* message is not processed.
C21_ChatGate ==
    Answered("chat") =>
        /\ call.response.processed = call.checked[1]
        /\ (call.response.code = 200) = call.checked[1]
        /\ ~call.checked[1] =>
                call.response = [code |-> 429, processed |-> FALSE,
                                 remaining_messages |-> Some(0),
                                 weekly_limit |-> FREE_TIER_WEEKLY_MESSAGE_LIMIT,
                                 is_pro |-> FALSE]

\* a chat request over the limit from a user who is not pro was refused
C21_Witness ==
    /\ Answered("chat")
    /\ call.message_count = FREE_TIER_WEEKLY_MESSAGE_LIMIT
    /\ ~call.checked[1]
    /\ call.response.code = 429
    /\ ~call.response.processed


\* C22: no step lowers the updated_at or the created_at of a record, handlers
\* running concurrently included.
C22_TimestampsNeverDecrease ==
    [][\A u \in DOMAIN store :
            /\ store'[u].updated_at >= store[u].updated_at
            /\ store'[u].created_at >= store[u].created_at]_vars


\* C23: no step removes a record, and the collection holds one document for
\* a user_id at most: the document found under a user_id carries that
\* user_id, two first events for a new user handled concurrently included.
C23_NeverDeletedOnePerUser ==
    [][/\ DOMAIN store \subseteq DOMAIN store'
       /\ \A k \in DOMAIN store' : store'[k].user_id = k]_vars

\* two handlers that both found no document for u1 have both written
C23_Witness ==
    /\ \A h \in Handlers :
            /\ hs[h].pc = "read"
            /\ "created_at" \in DOMAIN hs[h].data
            /\ event_user_id(hs[h].ev) = "u1"
    /\ DOMAIN store = {"u1"}


\* a step that handled the first event naming a user who has no record
FirstEvent ==
    /\ Delivery
    /\ last'.type \in RecognizedTypes
    /\ event_user_id(last') # ""
    /\ event_user_id(last') \notin DOMAIN store

\* C24 as stated: the first event of any recognized type that names a user
\* with no record creates the user's record, BILLING_ISSUE included.
C24_FirstEventCreatesRecord ==
    [][FirstEvent => event_user_id(last') \in DOMAIN store']_vars

\* C24: the first event of any recognized type but BILLING_ISSUE that names a
\* user with no record creates the user's record, stamped with the clock as
\* created_at and updated_at; a first BILLING_ISSUE creates none.
C24_FirstEventButBillingIssueCreatesRecord ==
    [][FirstEvent
        => LET u == event_user_id(last')
           IN  IF last'.type = "BILLING_ISSUE" THEN store' = store
               ELSE /\ u \in DOMAIN store'
                    /\ store'[u].user_id = u
                    /\ store'[u].created_at = now
                    /\ store'[u].updated_at = now]_vars

\* the first event for u1 was a SUBSCRIBER_ALIAS, and u1 has a record that
\* holds the customer id and nothing of a subscription
C24_Witness ==
    /\ last.type = "SUBSCRIBER_ALIAS"
    /\ delivered = 1
    /\ DOMAIN store = {"u1"}
    /\ DOMAIN store["u1"] = {"user_id", "revenuecat_customer_id", "created_at", "updated_at"}


\* the status an event sets, by its type and period type alone
StatusSetBy(e) ==
    CASE e.type \in {"INITIAL_PURCHASE", "NON_RENEWING_PURCHASE"} ->
            IF e.period_type = "TRIAL" THEN TRIALING ELSE ACTIVE
      [] e.type \in {"RENEWAL", "UNCANCELLATION", "PRODUCT_CHANGE"} -> ACTIVE
      [] e.type \in {"CANCELLATION", "SUBSCRIPTION_PAUSED"} -> CANCELLED
      [] e.type = "EXPIRATION" -> EXPIRED

\* C25: after any sequence of status-setting events the status of the
\* record is the one the event received last sets, whatever the events before
\* it and whatever the times they carry; a RENEWAL received after an
\* EXPIRATION leaves the record active with the renewal's first entitlement,
\* product and expiration, even when that expiration lies before the time of
\* the EXPIRATION.
C25_LastReceivedDecides ==
    log # <<>> =>
        LET e == log[Len(log)]
            r == Record(store, "u1")
        IN  /\ r # None
            /\ r[1].status = StatusSetBy(e)
            /\ (e.type = "RENEWAL" /\ Len(log) > 1 /\ log[Len(log) - 1].type = "EXPIRATION")
                    => /\ r[1].status = ACTIVE
                       /\ r[1].entitlements = <<e.entitlement_ids[1]>>
                       /\ r[1].current_product_id = e.product_id
                       /\ r[1].expires_at = e.expiration_at_ms

\* an EXPIRATION was handled at the second clock value and then a RENEWAL
\* whose expiration is the first clock value: the record is active again
C25_Witness ==
    /\ Len(log) = 2
    /\ log[1].type = "EXPIRATION"
    /\ log[2].type = "RENEWAL"
    /\ log[2].expiration_at_ms = Some(1)
    /\ store["u1"].created_at = 2
    /\ store["u1"].status = ACTIVE
    /\ store["u1"].entitlements = <<"basic">>
    /\ store["u1"].expires_at = Some(1)


\* the record of u1 is in the grace period a cancellation opened: cancelled,
\* holding "pro", with an expiry, and the cancellation is the last event
InGrace(st, e) ==
    /\ e.type = "CANCELLATION"
    /\ Record(st, "u1") # None
    /\ Record(st, "u1")[1].status = CANCELLED
    /\ Has(Record(st, "u1")[1].entitlements, "pro")
    /\ Record(st, "u1")[1].expires_at # None

\* C26: a CANCELLATION that carries a later expiration, handled for a record
\* that is active with "pro", leaves the record cancelled with "pro" and that
\* expiry; from then on, as long as no other event is handled, is_user_pro is
\* TRUE at every clock value before the expiry and FALSE at every clock value
\* from the expiry on, and the clock reaching the expiry writes nothing.
C26_GracePeriod ==
    [][/\ (/\ delivered' # delivered
            /\ last'.type = "CANCELLATION"
            /\ Record(store, "u1") # None
            /\ Record(store, "u1")[1].status = ACTIVE
            /\ Has(Record(store, "u1")[1].entitlements, "pro")
            /\ last'.expiration_at_ms # None
            /\ last'.expiration_at_ms[1] > now)
                => /\ InGrace(store', last')
                   /\ Record(store', "u1")[1].expires_at = last'.expiration_at_ms
                   /\ is_user_pro(store', "u1", now')
       /\ (InGrace(store, last) /\ delivered' = delivered)
                => /\ store' = store
                   /\ is_user_pro(store, "u1", now)
                        = (now < Record(store, "u1")[1].expires_at[1])
                   /\ is_user_pro(store', "u1", now')
                        = (now' < Record(store, "u1")[1].expires_at[1])]_vars

\* the clock has reached the expiry of a cancelled record that holds "pro"
\* and was last written before, and is_user_pro has returned FALSE for it
C26_Witness ==
    /\ InGrace(store, last)
    /\ Record(store, "u1")[1].expires_at = Some(now)
    /\ store["u1"].updated_at < now
    /\ quota # NoQuery
    /\ quota.user_id = "u1"
    /\ ~quota.is_pro


\* C27: in every step of every interleaving of the handlers, the only record
\* created or changed is the one keyed by the user of the event whose handler
\* writes in that step; every other record is as it was.
C27_OnlyRecordOfUser ==
    [][/\ DOMAIN store \subseteq DOMAIN store'
       /\ \A u \in DOMAIN store' :
            (u \notin DOMAIN store \/ store'[u] # store[u])
                => \E h \in Handlers :
                        /\ hs[h].pc = "update"
                        /\ hs'[h].pc = "read"
                        /\ event_user_id(hs[h].ev) = u]_vars

\* while a handler is about to write for u2, whose record dates from the
\* first clock value, another has written the record of u1 at the second
C27_Witness ==
    /\ DOMAIN store = {"u1", "u2"}
    /\ store["u2"].updated_at = 1
    /\ store["u1"].updated_at = 2
    /\ \E h \in Handlers : hs[h].pc = "read" /\ event_user_id(hs[h].ev) = "u1"
    /\ \E h \in Handlers : hs[h].pc = "update" /\ event_user_id(hs[h].ev) = "u2"


\* C28: an event of any recognized type but SUBSCRIBER_ALIAS, handled for a
\* user who has a record, leaves the record's revenuecat_customer_id as it
\* was.
C28_CustomerIdOnlyByAlias ==
    [][(Delivery /\ last'.type \in RecognizedTypes \ {"SUBSCRIBER_ALIAS"}
                 /\ event_user_id(last') \in DOMAIN store)
        => Record(store', event_user_id(last'))[1].revenuecat_customer_id
            = Record(store, event_user_id(last'))[1].revenuecat_customer_id]_vars


\* C29: when an EXPIRATION and a CANCELLATION or SUBSCRIPTION_PAUSED for u1
\* have both been handled, in whatever order and however their reads and
\* writes interleaved, the record of u1 holds no entitlement and is_user_pro
\* is FALSE.
C29_ExpirationNotUndone ==
    (/\ race # NoRace
     /\ delivered = Len(race.ev)
     /\ \A h \in Handlers : hs[h].pc = "idle"
     /\ \E i \in {1, 2} :
            /\ race.ev[i].type = "EXPIRATION"
            /\ race.ev[3 - i].type \in {"CANCELLATION", "SUBSCRIPTION_PAUSED"})
        => /\ Record(store, "u1")[1].entitlements = <<>>
           /\ ~is_user_pro(store, "u1", now)


\* the is-pro predicate of a status, entitlements and expires_at at clock t
IsPro(status, entitlements, expires_at, t) ==
    /\ status # EXPIRED
    /\ Has(entitlements, "pro")
    /\ status = CANCELLED => (expires_at # None /\ expires_at[1] > t)

\* C30: in every answer with code 200 of the four client endpoints,
\* remaining_messages is null exactly when the reported is_pro is true, and
\* the is_pro the status endpoint reports is the is-pro predicate of the
\* status, entitlements and expires_at it reports, also when a delivery for
\* the user is handled between the endpoint's reads.
C30_AnswersConsistent ==
    (call.endpoint \in Endpoints /\ call.pc = "done" /\ call.response.code = 200)
        => /\ (call.response.remaining_messages = None) = call.response.is_pro
           /\ call.endpoint = "get_subscription_status"
                => call.response.is_pro
                    = IsPro(call.response.status, call.response.entitlements,
                            call.response.expires_at, call.at)


\* C31 as stated: for a user who is not pro, whatever the count (a negative
\* one included) and the window start, remaining is between 0 and the weekly
\* limit, and can_send is TRUE exactly when remaining is at least 1.
C31_RemainingWithinLimit ==
    (quota # NoQuery /\ ~quota.is_pro) =>
        /\ quota.remaining[1] >= 0
        /\ quota.remaining[1] <= FREE_TIER_WEEKLY_MESSAGE_LIMIT
        /\ quota.can_send = (quota.remaining[1] >= 1)

\* C31: for a user who is not pro, remaining is never negative and can_send
\* is TRUE exactly when remaining is at least 1; remaining is at most the
\* weekly limit exactly when the count check_message_limit used is not
\* negative: for a negative count it is the limit plus the size of the count.
C31_RemainingAtLeastZero ==
    (quota # NoQuery /\ ~quota.is_pro) =>
        /\ quota.remaining # None
        /\ quota.remaining[1] >= 0
        /\ quota.can_send = (quota.remaining[1] >= 1)
        /\ (quota.remaining[1] <= FREE_TIER_WEEKLY_MESSAGE_LIMIT) = (quota.effective >= 0)
        /\ quota.effective < 0
                => quota.remaining[1] = FREE_TIER_WEEKLY_MESSAGE_LIMIT - quota.effective

\* a user who is not pro has asked with the count -1 and was told that one
\* message more than the weekly limit remains
C31_Witness ==
    /\ quota # NoQuery
    /\ ~quota.is_pro
    /\ quota.current_message_count = -1
    /\ quota.can_send
    /\ quota.remaining = Some(FREE_TIER_WEEKLY_MESSAGE_LIMIT + 1)


\* C32: when the status endpoint answers for a user for whom is_user_pro
\* returned FALSE, with a record or without, the remaining_messages it
\* reports is the remaining that check_message_limit returned to it for the
\* same count and window start, and is not negative.
C32_StatusRemainingIsEvaluators ==
    (Answered("get_subscription_status") /\ ~call.is_pro)
        => /\ call.response.remaining_messages = call.checked[2]
           /\ call.response.remaining_messages # None
                => call.response.remaining_messages[1] >= 0


\* C33: when the webhook endpoint answers with status "error" because a
\* round trip to the store failed, whichever it is, the collection is as it
\* was before the delivery.
C33_ErrorMeansNoMutation ==
    [][(/\ Received
        /\ parse(request'.body) # None
        /\ request'.outage # NoOutage
        /\ response' = Response(200, "error"))
        => store' = store]_vars


\* C34: the write that creates a record gives it its created_at, and no
\* later step changes the created_at of a record, two handlers for a new
\* user that both found no document included.
C34_CreatedAtAssignedOnce ==
    [][\A u \in DOMAIN store' :
            IF u \in DOMAIN store
            THEN store'[u].created_at = store[u].created_at
            ELSE "created_at" \in DOMAIN store'[u]]_vars

====
